---- MODULE Spec2Model ----
(***************************************************************************)
(* A model of the reactive engine of Vue篇/实现响应系统: the dependency     *)
(* store (bucket), track / trigger, the effect runner with its cleanup and *)
(* effect stack, the proxy traps of getProxyObj, the array                 *)
(* instrumentations, the batching job queue, computed and watch.           *)
(*                                                                         *)
(* JavaScript runs one call at a time, so the model is a small-step        *)
(* machine: `stack` is the host call stack, one frame per call of the      *)
(* engine that is still running (an effectFn, a trigger's forEach, an      *)
(* instrumented push, a computed getter, a watch job, a flush), and each   *)
(* action is one straight-line piece of a function up to its next call.    *)
(* A handle operation made by the script at top level is an action that is *)
(* enabled only when the stack is empty.                                   *)
(***************************************************************************)
EXTENDS Integers, Sequences, FiniteSets, TLC

\* ------------------------------------------------------------------ bounds
MaxVal == 1
MaxLen == 2
MaxStack == 4

\* ------------------------------------------------------------------ values
Val == 0..MaxVal
\* JavaScript's undefined, a missing own property and NaN, as numbers outside Val
UNDEFINED == 0 - 1
ABSENT == 0 - 2
NaN == 0 - 3
\* the object c, as the value of a property
RefC == 0 - 4
\* the handle getProxyObj returns for c
ProxyC == 0 - 9
\* the handle of g, the objects s and g as the values of properties, and null
ProxyG == 0 - 5
RefS == 0 - 6
RefG == 0 - 7
NULL == 0 - 8
\* activeEffect when no effect runs
NoEffect == "undefined"

EffectIds == <<"e1", "e2">>
Effects == {EffectIds[i] : i \in 1..Len(EffectIds)}
\* o and arr are behind the handles of the full getProxyObj, testObj and obj behind
\* those of the first getProxyObj (get and set traps only); cell is a computed's obj
\* p and c are wrapped by calls of the full getProxyObj the script makes with a
\* mode; p.child is c.  g is behind a handle of the first getProxyObj and holds
\* the plain object s, which refers back to g: g.sub is s, s.back is g
Targets == {"o", "arr", "testObj", "obj", "cell", "p", "c", "g", "s"}
Wrapped == {"p", "c"}
FullHandle(t) == t \in {"o", "arr"} \cup Wrapped
ITERATE_KEY == "Symbol()"

IndexKey(i) ==
    CASE i = 0 -> "0" [] i = 1 -> "1" [] i = 2 -> "2" [] i = 3 -> "3" [] OTHER -> "4"
IndexKeys == {IndexKey(i) : i \in 0..(MaxLen - 1)}
RecKeys == {"ok", "foo", "baz"}
\* the property keys the script uses on each object
KeysOf(t) ==
    CASE t = "o" -> RecKeys
      [] t = "arr" -> IndexKeys \cup {"length"}
      [] t = "testObj" -> {"name", "age"}
      [] t = "obj" -> {"foo", "bar"}
      [] t = "p" -> {"child", "n"}
      [] t = "c" -> {"x"}
      [] t = "g" -> {"a", "sub"}
      [] t = "s" -> {"b", "back"}
      [] OTHER -> {"value"}

\* Number(key): the index a property key denotes, NaN for any other key
Number(k) ==
    CASE k = "0" -> 0 [] k = "1" -> 1 [] k = "2" -> 2 [] k = "3" -> 3 [] k = "4" -> 4
      [] OTHER -> NaN
\* a < b and a >= b of JavaScript numbers: false as soon as one side is NaN
Lt(a, b) == a # NaN /\ b # NaN /\ a < b
Ge(a, b) == a # NaN /\ b # NaN /\ a >= b
\* a !== b ... with NaN !== NaN
StrictNe(a, b) == a # b \/ a = NaN

\* ---------------------------------------------------- insertion-ordered sets
\* a JavaScript Set is a sequence without duplicates, iterated in insertion order
InSeq(x, s) == \E i \in 1..Len(s) : s[i] = x
SetAdd(s, x) == IF InSeq(x, s) THEN s ELSE Append(s, x)
SetDelete(s, x) == SelectSeq(s, LAMBDA y : y # x)
SetAddAllArray(s, xs) == s \o xs
RECURSIVE SetAddAll(_, _)
SetAddAll(s, xs) == IF xs = <<>> THEN s ELSE SetAddAll(SetAdd(s, Head(xs)), Tail(xs))
Range(s) == {s[i] : i \in 1..Len(s)}
Last(s) == s[Len(s)]
Front(s) == SubSeq(s, 1, Len(s) - 1)

\* a JavaScript Map from keys to Sets is a sequence of entries, in insertion order
MapHas(m, k) == \E i \in 1..Len(m) : m[i].key = k
\* depsMap.get(key), undefined read as the empty Set
MapGet(m, k) ==
    IF MapHas(m, k) THEN m[CHOOSE i \in 1..Len(m) : m[i].key = k].effects ELSE <<>>
MapSet(m, k, s) ==
    IF MapHas(m, k)
    THEN [i \in 1..Len(m) |-> IF m[i].key = k THEN [key |-> k, effects |-> s] ELSE m[i]]
    ELSE Append(m, [key |-> k, effects |-> s])

VARIABLES
    raw,          \* the underlying objects: raw[t][k], ABSENT when k is no own key
    bucket,       \* bucket[t]: depsMap of t, a Map from keys to subscriber Sets
    deps,         \* effectFn.deps: the (t, k) of the Sets the effect was added to
    fnOf,         \* the body of each registered effect, "none" before effect(fn)
    sched,        \* options.scheduler of each effect
    activeEffect,
    effectStack,
    shouldTrack,
    stack,        \* the call stack of the engine
    error,        \* the exception that ended the last task, "none" otherwise
    lastOp,       \* the last handle operation of the script
    ran,          \* the effects whose runner was called since lastOp began
    jobQueue,     \* the Set of jobs, in insertion order
    isFlushing,
    microtasks,   \* the host's microtask queue
    phase,        \* "sync" while a task of the script runs, "drain" between tasks
    pending,      \* how often each batching scheduler was called in a task of the
                  \* script since the last flush began
    since,        \* the effects whose scheduler was called since the last flush ended
    atStart,      \* pending, as the flush that runs or ran last found it
    flushRuns,    \* how often that flush called each job
    value,        \* computed: the value cached by the last run of the getter
    dirty,        \* computed: the cache is to be recomputed
    testNum,      \* how often the getter has run since the last read of value began
    fresh,        \* no read of value has returned since the cell was made or since
                  \* the last write to a key of obj
    obs,          \* the read of value that returned last
    reactiveMap,  \* for p and c: the proxy stored for the object (id 0: none)
    nextId,       \* the number of proxies made so far, plus one
    held,         \* the handles the calls of getProxyObj returned, each with the
                  \* mode it was asked for
    lastH,        \* the last write or deletion the script made through such a handle
    found,        \* the last search the script made on a wrapped sequence
    owed,         \* the effects whose batching scheduler was called and whose runner
                  \* has not been started since
    handlerCalls, \* the calls of cleanup() job made: the invocation of cb that
                  \* registered the handler, and the invocation that was about to begin
    options,      \* watch: the options it was called with
    newVal,       \* watch: let newValue, oldValue
    oldVal,
    cleanup,      \* watch: the invocation of cb whose handler onInvalidate holds, or 0
    expired,      \* the invocations of cb whose handler was called
    calls,        \* the invocations of cb so far: new, old, and obj.foo as it then was
    finalData,    \* the invocation whose result was committed last, or 0
    committed,    \* the invocations that committed their result
    burst,        \* the invocations begun since the microtasks were last drained
    atSetup,      \* obj.foo when watch was called
    writes        \* the writes of obj.foo since watch returned

coreVars ==
    <<raw, bucket, deps, fnOf, sched, activeEffect, effectStack,
      shouldTrack, stack, error, lastOp, ran>>

batchVars == <<jobQueue, isFlushing, microtasks, phase, pending, since, atStart, flushRuns>>

computedVars == <<value, dirty, testNum, fresh, obs>>

watchVars == <<options, newVal, oldVal, cleanup, expired, calls, finalData,
               committed, burst, atSetup, writes>>

handleVars == <<reactiveMap, nextId, held, lastH>>

moreVars == <<handleVars, found, owed, handlerCalls>>

extVars == <<batchVars, computedVars, watchVars, moreVars>>

vars == <<coreVars, batchVars, computedVars, watchVars, moreVars>>

\* ------------------------------------------------------------ the raw objects
\* the values of JavaScript a search returns
JsBool(b) == [type |-> "boolean", n |-> IF b THEN 1 ELSE 0]
JsNum(n) == [type |-> "number", n |-> n]
\* found before the script has searched
NoSearch == [method |-> "none", xs |-> <<>>, shallow |-> FALSE, x |-> 0, res |-> JsNum(0)]
\* lastH before the script has written through a handle
NoWrite ==
    [op |-> "none", t |-> "p", k |-> "n", asReadonly |-> FALSE, before |-> <<>>, res |-> TRUE]
\* no proxy is stored for the object
NoProxy == [id |-> 0, shallow |-> FALSE, readonly |-> FALSE]
\* isReadonly of the proxy through which the script and the effects reach t
ReadonlyHandle(t) == t \in Wrapped /\ reactiveMap[t].readonly
IsArray(t) == t = "arr"
HasOwn(rw, t, k) == rw[t][k] # ABSENT
\* target[key]
GetV(rw, t, k) == IF rw[t][k] = ABSENT THEN UNDEFINED ELSE rw[t][k]

\* Reflect.set(target, key, newValue, receiver) on the raw object: an index at or
\* past the length of an array grows it, a smaller length drops the elements past it
ReflectSet(rw, t, k, v) ==
    IF IsArray(t) /\ k = "length"
    THEN [rw EXCEPT ![t] = [kk \in KeysOf(t) |->
            IF kk = "length" THEN v
            ELSE IF Ge(Number(kk), v) THEN ABSENT
            ELSE rw[t][kk]]]
    ELSE IF IsArray(t) /\ Ge(Number(k), rw[t]["length"])
    THEN [rw EXCEPT ![t][k] = v, ![t]["length"] = Number(k) + 1]
    ELSE [rw EXCEPT ![t][k] = v]

\* Reflect.deleteProperty(target, key): length of an array is not configurable
DeleteResult(t, k) == ~(IsArray(t) /\ k = "length")
ReflectDelete(rw, t, k) ==
    IF DeleteResult(t, k) THEN [rw EXCEPT ![t][k] = ABSENT] ELSE rw

\* ------------------------------------------------------------------ cleanup
RECURSIVE Cleanup(_, _, _)
Cleanup(bk, ds, e) ==
    IF ds = <<>> THEN bk
    ELSE Cleanup([bk EXCEPT ![Head(ds)[1]] =
                        MapSet(@, Head(ds)[2], SetDelete(MapGet(@, Head(ds)[2]), e))],
                 Tail(ds), e)

\* -------------------------------------------------------------------- track
Tracks(active, st) == active # NoEffect /\ st
TrackBucket(bk, active, st, t, k) ==
    IF Tracks(active, st)
    THEN [bk EXCEPT ![t] = MapSet(@, k, SetAdd(MapGet(@, k), active))]
    ELSE bk
TrackDepsNever(ds, active, st, t, k) == ds
TrackDeps(ds, active, st, t, k) ==
    IF Tracks(active, st) THEN [ds EXCEPT ![active] = Append(@, <<t, k>>)] ELSE ds

\* ------------------------------------------------------------------ trigger
NotActive(s, active) == SelectSeq(s, LAMBDA e : e # active)

\* depsMap.forEach((effects, key) => { if (key >= newValue) ... })
RECURSIVE LengthFanOut(_, _, _, _)
LengthFanOut(run, depsMap, newValue, active) ==
    IF depsMap = <<>> THEN run
    ELSE LengthFanOut(
            IF Ge(Number(Head(depsMap).key), newValue)
            THEN SetAddAll(run, NotActive(Head(depsMap).effects, active))
            ELSE run,
            Tail(depsMap), newValue, active)

\* effectsToRun of trigger(target, key, type, newValue), in iteration order
EffectsToRun(bk, t, k, type, newValue, active) ==
    LET effects == MapGet(bk[t], k)
        copied == SetAddAll(effects, NotActive(effects, active))
        byLength ==
            IF IsArray(t) /\ k = "length"
            THEN LengthFanOut(copied, bk[t], newValue, active)
            ELSE copied
        byAdd ==
            IF type = "ADD" /\ IsArray(t)
            THEN SetAddAll(byLength, NotActive(MapGet(bk[t], "length"), active))
            ELSE byLength
    IN  IF type \in {"ADD", "DELETE"}
        THEN SetAddAll(byAdd, NotActive(MapGet(bk[t], ITERATE_KEY), active))
        ELSE byAdd

\* the type the set trap gives a write
TriggerType(rw, t, k) ==
    IF IsArray(t)
    THEN (IF Lt(Number(k), rw[t]["length"]) THEN "SET" ELSE "ADD")
    ELSE (IF HasOwn(rw, t, k) THEN "SET" ELSE "ADD")

\* ------------------------------------------------------------------- frames
Frame(kind, e, by) ==
    [kind |-> kind, e |-> e, pc |-> 1, acc |-> UNDEFINED, todo |-> <<>>,
     reads |-> {}, by |-> by]
TriggerFrame(todo) == [Frame("trigger", NoEffect, "set") EXCEPT !.todo = todo]
Top == Last(stack)
Idle == stack = <<>> /\ error = "none" /\ phase = "sync"
InRun == stack # <<>> /\ Top.kind = "run"
\* a handle operation of the script, with what the raw object held before it
Op(op, t, k, v) ==
    [op |-> op, t |-> t, k |-> k, v |-> v, had |-> HasOwn(raw, t, k),
     oldLen |-> raw["arr"]["length"]]

\* --------------------------------------------------- the bodies of the effects
\* The functions handed to effect(fn) are the script's: each is a short program
\* over the handles, given by its instruction at pc (acc is the value last read).
I(op, t, k, v) == [op |-> op, t |-> t, k |-> k, v |-> v]
Ret == I("ret", "o", "ok", UNDEFINED)
\* acc + 1 of x++, kept in Val (undefined + 1 and NaN + 1 are NaN)
Inc(a) == IF a \in {UNDEFINED, NaN} THEN NaN ELSE (a + 1) % (MaxVal + 1)

Instr(f, pc, acc) ==
    CASE f = "readFoo" /\ pc = 1 -> I("get", "o", "foo", UNDEFINED)
      [] f = "cond" /\ pc = 1 -> I("get", "o", "ok", UNDEFINED)
      [] f = "cond" /\ pc = 2 ->
            IF acc = 1 THEN I("get", "o", "foo", UNDEFINED)
            ELSE I("get", "o", "baz", UNDEFINED)
      [] f = "inc" /\ pc = 1 -> I("get", "o", "foo", UNDEFINED)
      [] f = "inc" /\ pc = 2 -> I("set", "o", "foo", Inc(acc))
      [] f = "forIn" /\ pc = 1 -> I("ownKeys", "o", ITERATE_KEY, UNDEFINED)
      [] f = "forInArr" /\ pc = 1 -> I("ownKeys", "arr", "length", UNDEFINED)
      [] f = "readIdx0" /\ pc = 1 -> I("get", "arr", "0", UNDEFINED)
      [] f = "readIdx1" /\ pc = 1 -> I("get", "arr", "1", UNDEFINED)
      [] f = "readLen" /\ pc = 1 -> I("get", "arr", "length", UNDEFINED)
      [] f = "readAge" /\ pc = 1 -> I("get", "testObj", "age", UNDEFINED)
      [] f = "incAge" /\ pc = 1 -> I("get", "testObj", "age", UNDEFINED)
      [] f = "incAge" /\ pc = 2 -> I("set", "testObj", "age", Inc(acc))
      [] f = "copyAge" /\ pc = 1 -> I("get", "testObj", "age", UNDEFINED)
      [] f = "copyAge" /\ pc = 2 -> I("set", "testObj", "name", acc)
      [] f = "readName" /\ pc = 1 -> I("get", "testObj", "name", UNDEFINED)
      [] f = "sum" /\ pc = 1 -> I("count", "obj", "foo", UNDEFINED)
      [] f = "sum" /\ pc = 2 -> I("get", "obj", "foo", UNDEFINED)
      [] f = "sum" /\ pc = 3 -> I("getadd", "obj", "bar", UNDEFINED)
      [] f = "cellOnly" /\ pc = 1 -> I("value", "cell", "value", UNDEFINED)
      [] f = "fooCell" /\ pc = 1 -> I("get", "obj", "foo", UNDEFINED)
      [] f = "fooCell" /\ pc = 2 -> I("value", "cell", "value", UNDEFINED)
      [] f = "cellFoo" /\ pc = 1 -> I("value", "cell", "value", UNDEFINED)
      [] f = "cellFoo" /\ pc = 2 -> I("get", "obj", "foo", UNDEFINED)
      [] f = "guard" /\ pc = 1 -> I("get", "o", "ok", UNDEFINED)
      [] f = "guard" /\ pc = 2 /\ acc = 1 -> I("throw", "o", "ok", UNDEFINED)
      [] f = "traverseHandle" /\ pc = 1 -> I("traverse", "g", "a", ProxyG)
      [] f = "traverseNumber" /\ pc = 1 -> I("traverse", "g", "a", 1)
      [] f = "traverseNull" /\ pc = 1 -> I("traverse", "g", "a", NULL)
      [] f = "readCx" /\ pc = 1 -> I("get", "c", "x", UNDEFINED)
      [] f = "readPn" /\ pc = 1 -> I("get", "p", "n", UNDEFINED)
      [] f = "getter" /\ pc = 1 -> I("get", "obj", "foo", UNDEFINED)
      [] f = "barToFoo" /\ pc = 1 -> I("get", "obj", "bar", UNDEFINED)
      [] f = "barToFoo" /\ pc = 2 -> I("set", "obj", "foo", acc)
      [] OTHER -> Ret
TopInstr == Instr(fnOf[Top.e], Top.pc, Top.acc)

RecordBodies == {"readFoo", "cond", "inc", "forIn"}
ArrayBodies == {"readIdx0", "readIdx1", "readLen"}
BatchBodies == {"readAge", "incAge", "copyAge", "readName"}
ComputedBodies == {"cellOnly", "fooCell", "cellFoo"}
WatchBodies == {"barToFoo"}
HandleBodies == {"readCx", "readPn"}
ThrowBodies == {"guard", "readFoo"}
\* bodies that read one key and write nothing
ReaderBodies == {"readAge", "readName"}
\* for (const k in handle) {} on a record and on a sequence
ShapeBodies == {"forIn", "forInArr"}
\* the getters () => traverse(source) of watch(source, cb, options)
PrimitiveSources == {"traverseNumber", "traverseNull"}
TraverseBodies == {"traverseHandle"} \cup PrimitiveSources

\* ------------------------------------------------------------ effectFn: entry
\* A call of effectFn from a stack of stk: cleanup(effectFn), activeEffect =
\* effectFn, effectStack.push(effectFn), then fn() runs in the new frame.  A call
\* the host stack has no room for throws RangeError, which nothing catches.
CallEffect(e, stk, by, ranBase) ==
    IF Len(stk) >= MaxStack
    THEN /\ stack' = <<>>
         /\ error' = "RangeError"
         /\ ran' = ranBase
         /\ UNCHANGED <<bucket, deps, activeEffect, effectStack>>
    ELSE /\ bucket' = Cleanup(bucket, deps[e], e)
         /\ deps' = [deps EXCEPT ![e] = <<>>]
         /\ activeEffect' = e
         /\ effectStack' = Append(effectStack, e)
         /\ stack' = Append(stk, Frame("run", e, by))
         /\ error' = error
         /\ ran' = ranBase \cup {e}

FirstFree ==
    EffectIds[CHOOSE i \in 1..Len(EffectIds) :
        /\ fnOf[EffectIds[i]] = "none"
        /\ \A j \in 1..(i - 1) : fnOf[EffectIds[j]] # "none"]

\* effect(fn, options) of the script, not lazy: the runner is called at once
Register(f, scheduler) ==
    /\ Idle
    /\ \E e \in Effects : fnOf[e] = "none"
    /\ fnOf' = [fnOf EXCEPT ![FirstFree] = f]
    /\ sched' = [sched EXCEPT ![FirstFree] = scheduler]
    /\ lastOp' = Op("effect", "o", "ok", UNDEFINED)
    /\ CallEffect(FirstFree, <<>>, "effect", {})
    /\ UNCHANGED <<raw, shouldTrack>>

\* ------------------------------------------------------------ the proxy traps
\* get(target, key, receiver) of a data key, called by the body of an effect
EffectGet ==
    /\ InRun
    /\ TopInstr.op \in {"get", "getadd"}
    /\ LET i == TopInstr IN
        /\ bucket' = TrackBucket(bucket, activeEffect,
                                 shouldTrack /\ ~ReadonlyHandle(i.t), i.t, i.k)
        /\ deps' = TrackDeps(deps, activeEffect,
                             shouldTrack /\ ~ReadonlyHandle(i.t), i.t, i.k)
        /\ stack' = [stack EXCEPT ![Len(stack)] =
                [@ EXCEPT !.pc = @ + 1,
                          !.acc = IF i.op = "getadd" THEN @ + GetV(raw, i.t, i.k)
                                  ELSE GetV(raw, i.t, i.k),
                          !.reads = @ \cup {<<i.t, i.k>>}]]
    /\ UNCHANGED <<raw, fnOf, sched, activeEffect, effectStack, shouldTrack, error,
                   lastOp, ran>>

\* ownKeys(target), called by a for...in of the body of an effect
IterateKey(t) == IF IsArray(t) THEN "length" ELSE ITERATE_KEY
EffectOwnKeys ==
    /\ InRun
    /\ TopInstr.op = "ownKeys"
    /\ LET t == TopInstr.t
           k == IterateKey(TopInstr.t) IN
        /\ bucket' = TrackBucket(bucket, activeEffect, shouldTrack, t, k)
        /\ deps' = TrackDeps(deps, activeEffect, shouldTrack, t, k)
        /\ stack' = [stack EXCEPT ![Len(stack)] =
                [@ EXCEPT !.pc = @ + 1, !.reads = @ \cup {<<t, k>>}]]
    /\ UNCHANGED <<raw, fnOf, sched, activeEffect, effectStack, shouldTrack, error,
                   lastOp, ran>>

\* oldValue !== newValue && (oldValue === oldValue || newValue === newValue)
ChangedStrict(oldValue, newValue) == StrictNe(oldValue, newValue)
Changed(oldValue, newValue) ==
    StrictNe(oldValue, newValue) /\ (oldValue # NaN \/ newValue # NaN)

\* set(target, key, newValue, receiver) of a mutable handle, from a stack of stk:
\* the write, then trigger(target, key, type, newValue) when the value changed.
\* trigger fixes effectsToRun before it runs any of them.
SetTrap(t, k, v, stk) ==
    LET oldValue == GetV(raw, t, k)
        type == TriggerType(raw, t, k)
        todo == EffectsToRun(bucket, t, k, type, v, activeEffect)
    IN  /\ raw' = ReflectSet(raw, t, k, v)
        /\ stack' = IF Changed(oldValue, v) /\ todo # <<>>
                     THEN Append(stk, TriggerFrame(todo))
                     ELSE stk

\* effectsToRun of the first trigger(target, key)
BasicEffectsToRun(bk, t, k, active) ==
    LET effects == MapGet(bk[t], k)
    IN  SetAddAll(effects, NotActive(effects, active))

\* set(target, key, value) of the first getProxyObj: the write, then trigger
BasicSetTrap(t, k, v, stk) ==
    LET todo == BasicEffectsToRun(bucket, t, k, activeEffect)
    IN  /\ raw' = [raw EXCEPT ![t][k] = v]
        /\ stack' = IF todo # <<>> THEN Append(stk, TriggerFrame(todo)) ELSE stk

\* handle[k] = v, by the getProxyObj that made the handle of t
Write(t, k, v, stk) ==
    IF FullHandle(t) THEN SetTrap(t, k, v, stk) ELSE BasicSetTrap(t, k, v, stk)

\* deleteProperty(target, key) of a mutable handle
DeleteTrap(t, k, stk) ==
    LET hadKey == HasOwn(raw, t, k)
        res == DeleteResult(t, k)
        todo == EffectsToRun(bucket, t, k, "DELETE", UNDEFINED, activeEffect)
    IN  /\ raw' = ReflectDelete(raw, t, k)
        /\ stack' = IF res /\ hadKey /\ todo # <<>>
                     THEN Append(stk, TriggerFrame(todo))
                     ELSE stk

Advance(stk) == [stk EXCEPT ![Len(stk)] = [@ EXCEPT !.pc = @ + 1]]

\* a write made by the body of an effect
EffectSet ==
    /\ InRun
    /\ TopInstr.op = "set"
    /\ Write(TopInstr.t, TopInstr.k, TopInstr.v, Advance(stack))
    /\ UNCHANGED <<bucket, deps, fnOf, sched, activeEffect, effectStack,
                   shouldTrack, error, lastOp, ran>>

\* ------------------------------------------------------------- effectFn: exit
\* the value a callee returns goes to the computed getter or the watch job below
Deliver(stk, res) ==
    IF stk # <<>> /\ Last(stk).kind \in {"cell", "job", "setup"}
    THEN [stk EXCEPT ![Len(stk)] = [@ EXCEPT !.acc = res]]
    ELSE stk

\* effectStack[effectStack.length - 1] (undefined for an empty array)
LastOfStackUndefined(es) == NoEffect
LastOfStack(es) == IF es = <<>> THEN NoEffect ELSE Last(es)

\* fn() returned: effectStack.pop(), activeEffect = effectStack[length - 1]
EffectReturn ==
    /\ InRun
    /\ TopInstr.op = "ret"
    /\ effectStack' = Front(effectStack)
    /\ activeEffect' = LastOfStack(Front(effectStack))
    /\ stack' = Deliver(Front(stack), Top.acc)
    /\ UNCHANGED <<raw, bucket, deps, fnOf, sched, shouldTrack, error,
                   lastOp, ran>>

\* ----------------------------------------------------- trigger: the forEach
\* the frame of a trigger whose last effect is being called has nothing left to do
Rest(stk) ==
    IF Tail(Last(stk).todo) = <<>> THEN Front(stk)
    ELSE [stk EXCEPT ![Len(stk)] = [@ EXCEPT !.todo = Tail(@)]]
InTrigger == stack # <<>> /\ Top.kind = "trigger"

\* effectsToRun.forEach: an effect with no scheduler is called
TriggerRun ==
    /\ InTrigger
    /\ sched[Head(Top.todo)] = "none"
    /\ CallEffect(Head(Top.todo), Rest(stack), "trigger", ran)
    /\ UNCHANGED <<raw, fnOf, sched, shouldTrack, lastOp>>

\* ------------------------------------------------- the script, at top level
\* handle[k] = v
TopSet(t, k, v) ==
    /\ Idle
    /\ lastOp' = Op("set", t, k, v)
    /\ ran' = {}
    /\ Write(t, k, v, <<>>)
    /\ UNCHANGED <<bucket, deps, fnOf, sched, activeEffect, effectStack,
                   shouldTrack, error>>

\* delete handle[k]
TopDelete(t, k) ==
    /\ Idle
    /\ lastOp' = Op("delete", t, k, UNDEFINED)
    /\ ran' = {}
    /\ DeleteTrap(t, k, <<>>)
    /\ UNCHANGED <<bucket, deps, fnOf, sched, activeEffect, effectStack,
                   shouldTrack, error>>

\* ------------------------------------------------ arrayInstrumentations.push
\* handle.push(v) of the script: shouldTrack = false, then Array.prototype.push on
\* the handle reads length, sets the index length (here) and then sets length
TopPush(v) ==
    /\ Idle
    /\ raw["arr"]["length"] < MaxLen
    /\ lastOp' = Op("push", "arr", "length", v)
    /\ ran' = {}
    /\ shouldTrack' = FALSE
    /\ SetTrap("arr", IndexKey(raw["arr"]["length"]), v,
               <<[Frame("push", NoEffect, "script") EXCEPT
                    !.acc = raw["arr"]["length"]]>>)
    /\ UNCHANGED <<bucket, deps, fnOf, sched, activeEffect, effectStack,
                   error>>

InPush == stack # <<>> /\ Top.kind = "push"
\* Array.prototype.push, last step: handle.length = len + 1
PushSetLength ==
    /\ InPush
    /\ Top.pc = 1
    /\ SetTrap("arr", "length", Top.acc + 1, Advance(stack))
    /\ UNCHANGED <<bucket, deps, fnOf, sched, activeEffect, effectStack,
                   shouldTrack, error, lastOp, ran>>

\* originMethod returned: shouldTrack = true
PushReturn ==
    /\ InPush
    /\ Top.pc = 2
    /\ shouldTrack' = TRUE
    /\ stack' = Front(stack)
    /\ UNCHANGED <<raw, bucket, deps, fnOf, sched, activeEffect,
                   effectStack, error, lastOp, ran>>

\* ------------------------------------------------------------------- Init
Init ==
    /\ raw = [t \in Targets |-> [k \in KeysOf(t) |->
            CASE t = "o" /\ k \in {"ok", "foo"} -> 0
              [] t = "arr" /\ k = "length" -> 1
              [] t = "arr" /\ k = "0" -> 0
              [] t = "testObj" -> 0
              [] t = "obj" -> 0
              [] t = "p" /\ k = "child" -> RefC
              [] t = "p" /\ k = "n" -> 0
              [] t = "c" -> 0
              [] t = "g" /\ k = "a" -> 0
              [] t = "g" /\ k = "sub" -> RefS
              [] t = "s" /\ k = "b" -> 0
              [] t = "s" /\ k = "back" -> RefG
              [] OTHER -> ABSENT]]
    /\ bucket = [t \in Targets |-> <<>>]
    /\ deps = [e \in Effects |-> <<>>]
    /\ fnOf = [e \in Effects |-> "none"]
    /\ sched = [e \in Effects |-> "none"]
    /\ activeEffect = NoEffect
    /\ effectStack = <<>>
    /\ shouldTrack = TRUE
    /\ stack = <<>>
    /\ error = "none"
    /\ lastOp = [op |-> "none", t |-> "o", k |-> "ok", v |-> UNDEFINED, had |-> TRUE,
                 oldLen |-> 1]
    /\ ran = {}
    /\ jobQueue = <<>>
    /\ isFlushing = FALSE
    /\ microtasks = <<>>
    /\ phase = "sync"
    /\ pending = [e \in Effects |-> 0]
    /\ since = {}
    /\ atStart = [e \in Effects |-> 0]
    /\ flushRuns = [e \in Effects |-> 0]
    /\ value = UNDEFINED
    /\ dirty = TRUE
    /\ testNum = 0
    /\ fresh = TRUE
    /\ obs = [n |-> 0, val |-> UNDEFINED, runs |-> 0, fresh |-> FALSE, sum |-> UNDEFINED,
              by |-> "script"]
    /\ reactiveMap = [t \in Wrapped |-> NoProxy]
    /\ nextId = 1
    /\ held = {}
    /\ lastH = NoWrite
    /\ found = NoSearch
    /\ owed = {}
    /\ handlerCalls = <<>>
    /\ options = [watching |-> FALSE, cb |-> "commit", immediate |-> FALSE,
                  flush |-> "sync"]
    /\ newVal = UNDEFINED
    /\ oldVal = UNDEFINED
    /\ cleanup = 0
    /\ expired = {}
    /\ calls = <<>>
    /\ finalData = 0
    /\ committed = {}
    /\ burst = {}
    /\ atSetup = UNDEFINED
    /\ writes = 0

\* ----------------------------------------- records behind the full handle
WrittenVals == Val \cup {UNDEFINED, NaN}
NextRecord ==
    \/ \E f \in RecordBodies : Register(f, "none") /\ UNCHANGED extVars
    \/ EffectGet /\ UNCHANGED extVars
    \/ EffectOwnKeys /\ UNCHANGED extVars
    \/ EffectSet /\ UNCHANGED extVars
    \/ EffectReturn /\ UNCHANGED extVars
    \/ TriggerRun /\ UNCHANGED extVars
    \/ \E k \in RecKeys, v \in WrittenVals : TopSet("o", k, v) /\ UNCHANGED extVars
    \/ \E k \in RecKeys : TopDelete("o", k) /\ UNCHANGED extVars
SpecRecord == Init /\ [][NextRecord]_vars

\* ------------------------------------------ sequences behind the full handle
Lengths == 0..MaxLen
NextArray ==
    \/ \E f \in ArrayBodies : Register(f, "none") /\ UNCHANGED extVars
    \/ EffectGet /\ UNCHANGED extVars
    \/ EffectReturn /\ UNCHANGED extVars
    \/ TriggerRun /\ UNCHANGED extVars
    \/ \E k \in IndexKeys, v \in Val : TopSet("arr", k, v) /\ UNCHANGED extVars
    \/ \E n \in Lengths : TopSet("arr", "length", n) /\ UNCHANGED extVars
    \/ \E v \in Val : TopPush(v) /\ UNCHANGED extVars
    \/ PushSetLength /\ UNCHANGED extVars
    \/ PushReturn /\ UNCHANGED extVars
SpecArray == Init /\ [][NextArray]_vars

\* ---------------------------------------------------- jobQueue and flushJob
Min(a, b) == IF a < b THEN a ELSE b
SchedCap == 2
InFlush == stack # <<>> /\ stack[1].kind = "flush"
\* a callback waiting in the host's microtask queue (id: the invocation of cb it
\* belongs to, 0 for the callbacks of flushJob and of the post scheduler)
Microtask(kind, id) == [kind |-> kind, id |-> id]

\* jobQueue.add(fn) of a Set
JobQueueAddArray(q, e) == Append(q, e)
JobQueueAdd(q, e) == SetAdd(q, e)

\* effectsToRun.forEach: the batching scheduler(fn) is called with the effect:
\* jobQueue.add(fn), then flushJob(), which returns at once when isFlushing and
\* otherwise sets it and hands the flush to p.then
TriggerSchedule ==
    /\ InTrigger
    /\ sched[Head(Top.todo)] = "batch"
    /\ jobQueue' = JobQueueAdd(jobQueue, Head(Top.todo))
    /\ isFlushing' = TRUE
    /\ microtasks' = IF isFlushing THEN microtasks ELSE Append(microtasks, Microtask("flush", 0))
    /\ pending' = IF phase = "sync"
                   THEN [pending EXCEPT ![Head(Top.todo)] = Min(@ + 1, SchedCap)]
                   ELSE pending
    /\ since' = since \cup {Head(Top.todo)}
    /\ stack' = Rest(stack)
    /\ UNCHANGED <<raw, bucket, deps, fnOf, sched, activeEffect, effectStack,
                   shouldTrack, error, lastOp, ran, phase, atStart, flushRuns>>

\* the task of the script ends: the host turns to its microtasks
EndTask ==
    /\ Idle
    /\ phase' = "drain"
    /\ UNCHANGED <<coreVars, jobQueue, isFlushing, microtasks, pending, since,
                   atStart, flushRuns>>

\* no microtask is left: the host starts the next task of the script
NextTask ==
    /\ phase = "drain" /\ stack = <<>> /\ error = "none" /\ microtasks = <<>>
    /\ phase' = "sync"
    /\ UNCHANGED <<coreVars, jobQueue, isFlushing, microtasks, pending, since,
                   atStart, flushRuns>>

MicrotaskReady(kind) ==
    /\ phase = "drain" /\ stack = <<>> /\ error = "none"
    /\ microtasks # <<>> /\ Head(microtasks).kind = kind

\* the callback of p.then starts: jobQueue.forEach begins
FlushStart ==
    /\ MicrotaskReady("flush")
    /\ microtasks' = Tail(microtasks)
    /\ stack' = <<Frame("flush", NoEffect, "microtask")>>
    /\ atStart' = pending
    /\ pending' = [e \in Effects |-> 0]
    /\ flushRuns' = [e \in Effects |-> 0]
    /\ UNCHANGED <<raw, bucket, deps, fnOf, sched, activeEffect, effectStack,
                   shouldTrack, error, lastOp, ran, jobQueue, isFlushing, phase, since>>

\* jobQueue.forEach(job => job()): the next job of the live Set is called
FlushJob ==
    /\ stack # <<>> /\ Top.kind = "flush"
    /\ Top.pc <= Len(jobQueue)
    /\ flushRuns' = [flushRuns EXCEPT ![jobQueue[Top.pc]] = Min(@ + 1, SchedCap)]
    /\ CallEffect(jobQueue[Top.pc], Advance(stack), "flush", ran)
    /\ UNCHANGED <<raw, fnOf, sched, shouldTrack, lastOp, jobQueue, isFlushing,
                   microtasks, phase, pending, since, atStart>>

\* forEach is through: the promise of then resolves, which queues finally's callback
FlushEnd ==
    /\ stack # <<>> /\ Top.kind = "flush"
    /\ Top.pc > Len(jobQueue)
    /\ stack' = Front(stack)
    /\ microtasks' = Append(microtasks, Microtask("finally", 0))
    /\ since' = {}
    /\ UNCHANGED <<raw, bucket, deps, fnOf, sched, activeEffect, effectStack,
                   shouldTrack, error, lastOp, ran, jobQueue, isFlushing, phase,
                   pending, atStart, flushRuns>>

\* the callback of finally: isFlushing = false
FlushFinally ==
    /\ MicrotaskReady("finally")
    /\ microtasks' = Tail(microtasks)
    /\ isFlushing' = FALSE
    /\ UNCHANGED <<coreVars, jobQueue, phase, pending, since, atStart, flushRuns>>

NextBatch ==
    \/ \E f \in BatchBodies, s \in {"none", "batch"} : Register(f, s) /\ UNCHANGED extVars
    \/ EffectGet /\ UNCHANGED extVars
    \/ EffectSet /\ UNCHANGED extVars
    \/ EffectReturn /\ UNCHANGED extVars
    \/ TriggerRun /\ UNCHANGED extVars
    \/ TriggerSchedule /\ UNCHANGED <<computedVars, watchVars, moreVars>>
    \/ \E k \in KeysOf("testObj"), v \in Val : TopSet("testObj", k, v) /\ UNCHANGED extVars
    \/ EndTask /\ UNCHANGED <<computedVars, watchVars, moreVars>>
    \/ NextTask /\ UNCHANGED <<computedVars, watchVars, moreVars>>
    \/ FlushStart /\ UNCHANGED <<computedVars, watchVars, moreVars>>
    \/ FlushJob /\ UNCHANGED <<computedVars, watchVars, moreVars>>
    \/ FlushEnd /\ UNCHANGED <<computedVars, watchVars, moreVars>>
    \/ FlushFinally /\ UNCHANGED <<computedVars, watchVars, moreVars>>
SpecBatch == Init /\ [][NextBatch]_vars

\* ----------------------------------------------------------------- computed
RunCap == 2
HasCell == \E e \in Effects : fnOf[e] = "sum"
CellEffect == CHOOSE e \in Effects : fnOf[e] = "sum"
\* the getter of the script, () => { testNum++; return obj.foo + obj.bar }
Sum(rw) == rw["obj"]["foo"] + rw["obj"]["bar"]

\* computed(getter): effect(getter, {lazy: true, scheduler}) does not call the runner
Computed ==
    /\ Idle
    /\ ~HasCell
    /\ \E e \in Effects : fnOf[e] = "none"
    /\ fnOf' = [fnOf EXCEPT ![FirstFree] = "sum"]
    /\ sched' = [sched EXCEPT ![FirstFree] = "computed"]
    /\ lastOp' = Op("computed", "cell", "value", UNDEFINED)
    /\ value' = UNDEFINED
    /\ dirty' = TRUE
    /\ fresh' = TRUE
    /\ UNCHANGED <<raw, bucket, deps, activeEffect, effectStack, shouldTrack, stack,
                   error, ran, testNum, obs>>

\* testNum++ of the getter
GetterCount ==
    /\ InRun
    /\ TopInstr.op = "count"
    /\ testNum' = Min(testNum + 1, RunCap)
    /\ stack' = Advance(stack)
    /\ UNCHANGED <<raw, bucket, deps, fnOf, sched, activeEffect, effectStack,
                   shouldTrack, error, lastOp, ran, value, dirty, fresh, obs>>

\* what a read of value that returns v leaves behind
Observed(v, runs, by) ==
    [n |-> Min(obs.n + 1, RunCap), val |-> v, runs |-> runs, fresh |-> fresh,
     sum |-> Sum(raw), by |-> by]

\* get value(), from the stack stk of its caller: with dirty set it calls effectFn
\* and goes on in ValueReturn; otherwise it tracks and returns the cached value
ValueGet(stk, by) ==
    IF dirty
    THEN /\ testNum' = 0
         /\ CallEffect(CellEffect, Append(stk, Frame("cell", NoEffect, by)), "value", ran)
         /\ UNCHANGED <<value, dirty, fresh, obs>>
    ELSE /\ testNum' = 0
         /\ bucket' = TrackBucket(bucket, activeEffect, shouldTrack, "cell", "value")
         /\ deps' = TrackDeps(deps, activeEffect, shouldTrack, "cell", "value")
         /\ stack' = IF stk = <<>> THEN stk
                     ELSE [stk EXCEPT ![Len(stk)] = [@ EXCEPT !.pc = @ + 1, !.acc = value]]
         /\ obs' = Observed(value, 0, by)
         /\ fresh' = FALSE
         /\ UNCHANGED <<activeEffect, effectStack, error, ran, value, dirty>>

\* the body of an effect reads sumRes.value
EffectValue ==
    /\ InRun
    /\ TopInstr.op = "value"
    /\ ValueGet(stack, "effect")
    /\ UNCHANGED <<raw, fnOf, sched, shouldTrack, lastOp>>

\* the script reads sumRes.value
TopValue ==
    /\ Idle
    /\ HasCell
    /\ lastOp' = Op("value", "cell", "value", UNDEFINED)
    /\ ValueGet(<<>>, "script")
    /\ UNCHANGED <<raw, fnOf, sched, shouldTrack>>

\* effectFn() returned to get value(): value = res, dirty = false, track, return
ValueReturn ==
    /\ stack # <<>> /\ Top.kind = "cell"
    /\ value' = Top.acc
    /\ dirty' = FALSE
    /\ bucket' = TrackBucket(bucket, activeEffect, shouldTrack, "cell", "value")
    /\ deps' = TrackDeps(deps, activeEffect, shouldTrack, "cell", "value")
    /\ stack' = IF Front(stack) = <<>> THEN <<>>
                ELSE [Front(stack) EXCEPT ![Len(stack) - 1] =
                        [@ EXCEPT !.pc = @ + 1, !.acc = Top.acc]]
    /\ obs' = Observed(Top.acc, testNum, Top.by)
    /\ fresh' = FALSE
    /\ UNCHANGED <<raw, fnOf, sched, activeEffect, effectStack, shouldTrack, error,
                   lastOp, ran, testNum>>

\* effectsToRun.forEach: the scheduler of the computed is called:
\* dirty = true, trigger(obj, 'value')
TriggerComputed ==
    /\ InTrigger
    /\ sched[Head(Top.todo)] = "computed"
    /\ dirty' = TRUE
    /\ LET todo == BasicEffectsToRun(bucket, "cell", "value", activeEffect)
       IN  stack' = IF todo # <<>> THEN Append(Rest(stack), TriggerFrame(todo))
                    ELSE Rest(stack)
    /\ UNCHANGED <<raw, bucket, deps, fnOf, sched, activeEffect, effectStack,
                   shouldTrack, error, lastOp, ran, value, testNum, fresh, obs>>

\* obj[k] = v of the script
TopSetObj(k, v) ==
    /\ TopSet("obj", k, v)
    /\ fresh' = TRUE
    /\ UNCHANGED <<value, dirty, testNum, obs>>

NextComputed ==
    \/ Computed /\ UNCHANGED <<batchVars, watchVars, moreVars>>
    \/ \E f \in ComputedBodies : HasCell /\ Register(f, "none") /\ UNCHANGED extVars
    \/ EffectGet /\ UNCHANGED extVars
    \/ GetterCount /\ UNCHANGED <<batchVars, watchVars, moreVars>>
    \/ EffectValue /\ UNCHANGED <<batchVars, watchVars, moreVars>>
    \/ EffectReturn /\ UNCHANGED extVars
    \/ TopValue /\ UNCHANGED <<batchVars, watchVars, moreVars>>
    \/ ValueReturn /\ UNCHANGED <<batchVars, watchVars, moreVars>>
    \/ TriggerRun /\ UNCHANGED extVars
    \/ TriggerComputed /\ UNCHANGED <<batchVars, watchVars, moreVars>>
    \/ \E k \in KeysOf("obj"), v \in Val : TopSetObj(k, v) /\ UNCHANGED <<batchVars, watchVars, moreVars>>
SpecComputed == Init /\ [][NextComputed]_vars

\* -------------------------------------------------------------------- watch
MaxCalls == 3
WatchEffect == CHOOSE e \in Effects : fnOf[e] = "getter"
\* the invocations of cb begun or waiting to begin
Started == Len(calls) + Len(SelectSeq(microtasks, LAMBDA m : m.kind = "job"))
\* a write of obj.foo counts once watch has been called
Counted(t, k) ==
    IF options.watching /\ t = "obj" /\ k = "foo" THEN writes + 1 ELSE writes

\* watch(() => obj.foo, cb, options): the lazy effect is made; with immediate
\* job() is called, otherwise oldValue = effectFn()
Watch(cb, immediate, flush) ==
    /\ Idle
    /\ ~options.watching
    /\ \E e \in Effects : fnOf[e] = "none"
    /\ fnOf' = [fnOf EXCEPT ![FirstFree] = "getter"]
    /\ sched' = [sched EXCEPT ![FirstFree] = "watch"]
    /\ options' = [watching |-> TRUE, cb |-> cb, immediate |-> immediate,
                   flush |-> flush]
    /\ atSetup' = GetV(raw, "obj", "foo")
    /\ lastOp' = Op("watch", "obj", "foo", UNDEFINED)
    /\ CallEffect(FirstFree,
                  <<Frame(IF immediate THEN "job" ELSE "setup", NoEffect, "watch")>>,
                  "watch", {})
    /\ UNCHANGED <<raw, shouldTrack, newVal, oldVal, cleanup, expired, calls,
                   finalData, committed, burst, writes>>

\* oldValue = effectFn() is through
SetupReturn ==
    /\ stack # <<>> /\ Top.kind = "setup"
    /\ oldVal' = Top.acc
    /\ stack' = Front(stack)
    /\ UNCHANGED <<raw, bucket, deps, fnOf, sched, activeEffect, effectStack,
                   shouldTrack, error, lastOp, ran, microtasks, options, newVal,
                   cleanup, expired, calls, finalData, committed, burst, atSetup,
                   writes>>

\* if (cleanup) cleanup(): the handler sets the expired of its invocation
InvalidateNever(exp, c) == exp
Invalidate(exp, c) == IF c # 0 THEN exp \cup {c} ELSE exp
\* oldValue = newValue
OldValueAfter(new, old) == new

\* job(), from newValue = effectFn() on: the handler of the invocation before, then
\* cb(newValue, oldValue, onInvalidate) up to its await. The cb of the script
\* registers its handler at once (the cb "once" only in its first invocation); the
\* cb "reset" then writes obj.foo = 0 when it is called with MaxVal, the cb
\* "commit" writes nothing
JobCallback ==
    /\ stack # <<>> /\ Top.kind = "job" /\ Top.pc = 1
    /\ newVal' = Top.acc
    /\ expired' = Invalidate(expired, cleanup)
    /\ calls' = Append(calls, [new |-> Top.acc, old |-> oldVal,
                               cur |-> GetV(raw, "obj", "foo")])
    /\ cleanup' = IF options.cb = "once" /\ calls # <<>> THEN cleanup
                   ELSE Len(calls) + 1
    /\ burst' = burst \cup {Len(calls) + 1}
    /\ LET stk == [stack EXCEPT ![Len(stack)] =
                        [@ EXCEPT !.pc = 2, !.acc = Len(calls) + 1]]
       IN  IF options.cb = "reset" /\ Top.acc = MaxVal
           THEN Write("obj", "foo", 0, stk) /\ writes' = Counted("obj", "foo")
           ELSE stack' = stk /\ UNCHANGED <<raw, writes>>
    /\ UNCHANGED <<bucket, deps, fnOf, sched, activeEffect, effectStack,
                   shouldTrack, error, lastOp, ran, microtasks, options, oldVal,
                   finalData, committed, atSetup>>

\* cb reaches its await, which leaves the callback of Promise.resolve().then to
\* the microtasks, and returns; job goes on with oldValue = newValue
JobReturn ==
    /\ stack # <<>> /\ Top.kind = "job" /\ Top.pc = 2
    /\ microtasks' = Append(microtasks, Microtask("then", Top.acc))
    /\ oldVal' = OldValueAfter(newVal, oldVal)
    /\ stack' = Front(stack)
    /\ UNCHANGED <<raw, bucket, deps, fnOf, sched, activeEffect, effectStack,
                   shouldTrack, error, lastOp, ran, options, newVal, cleanup,
                   expired, calls, finalData, committed, burst, atSetup, writes>>

\* effectsToRun.forEach: the scheduler of the watch is called: with flush 'post'
\* p.then(job), otherwise job()
TriggerWatch ==
    /\ InTrigger
    /\ sched[Head(Top.todo)] = "watch"
    /\ IF options.flush = "post"
       THEN /\ microtasks' = Append(microtasks, Microtask("job", 0))
            /\ stack' = Rest(stack)
            /\ UNCHANGED <<bucket, deps, activeEffect, effectStack, error, ran>>
       ELSE /\ CallEffect(Head(Top.todo),
                          Append(Rest(stack), Frame("job", NoEffect, "trigger")),
                          "job", ran)
            /\ UNCHANGED microtasks
    /\ UNCHANGED <<raw, fnOf, sched, shouldTrack, lastOp, watchVars>>

\* the callback of p.then(job)
PostJob ==
    /\ MicrotaskReady("job")
    /\ microtasks' = Tail(microtasks)
    /\ CallEffect(WatchEffect, <<Frame("job", NoEffect, "microtask")>>, "job", ran)
    /\ UNCHANGED <<raw, fnOf, sched, shouldTrack, lastOp, watchVars>>

\* the callback of Promise.resolve().then in cb: res = 'test'; the promise cb
\* awaits is resolved, which leaves the rest of cb to the microtasks
ThenCallback ==
    /\ MicrotaskReady("then")
    /\ microtasks' = Append(Tail(microtasks), Microtask("commit", Head(microtasks).id))
    /\ UNCHANGED <<coreVars, watchVars>>

\* the rest of cb: if (!expired) finalData = res
Commit ==
    /\ MicrotaskReady("commit")
    /\ microtasks' = Tail(microtasks)
    /\ LET id == Head(microtasks).id
       IN  IF id \in expired THEN UNCHANGED <<finalData, committed>>
           ELSE finalData' = id /\ committed' = committed \cup {id}
    /\ UNCHANGED <<coreVars, options, newVal, oldVal, cleanup, expired, calls,
                   burst, atSetup, writes>>

\* obj[k] = v of the script
WatchedTopSet(k, v) ==
    /\ Started < MaxCalls
    /\ TopSet("obj", k, v)
    /\ writes' = Counted("obj", k)
    /\ UNCHANGED <<options, newVal, oldVal, cleanup, expired, calls, finalData,
                   committed, burst, atSetup>>

\* a write made by the body of an effect
WatchedEffectSet ==
    /\ EffectSet
    /\ writes' = Counted(TopInstr.t, TopInstr.k)
    /\ UNCHANGED <<options, newVal, oldVal, cleanup, expired, calls, finalData,
                   committed, burst, atSetup>>

\* the next task of the script begins
WatchedNextTask ==
    /\ NextTask
    /\ burst' = {}
    /\ UNCHANGED <<options, newVal, oldVal, cleanup, expired, calls, finalData,
                   committed, atSetup, writes>>

queueVars == <<jobQueue, isFlushing, pending, since, atStart, flushRuns>>

NextWatch ==
    \/ \E cb \in {"commit", "reset"}, i \in BOOLEAN, f \in {"sync", "post"} :
            Watch(cb, i, f) /\ UNCHANGED <<batchVars, computedVars, moreVars>>
    \/ \E f \in WatchBodies :
            Started < MaxCalls /\ Register(f, "none") /\ UNCHANGED extVars
    \/ EffectGet /\ UNCHANGED extVars
    \/ WatchedEffectSet /\ UNCHANGED <<batchVars, computedVars, moreVars>>
    \/ EffectReturn /\ UNCHANGED extVars
    \/ SetupReturn /\ UNCHANGED <<queueVars, phase, computedVars, moreVars>>
    \/ JobCallback /\ UNCHANGED <<queueVars, phase, computedVars, moreVars>>
    \/ JobReturn /\ UNCHANGED <<queueVars, phase, computedVars, moreVars>>
    \/ TriggerRun /\ UNCHANGED extVars
    \/ TriggerWatch /\ UNCHANGED <<queueVars, phase, computedVars, moreVars>>
    \/ \E k \in KeysOf("obj"), v \in Val :
            WatchedTopSet(k, v) /\ UNCHANGED <<batchVars, computedVars, moreVars>>
    \/ EndTask /\ UNCHANGED <<computedVars, watchVars, moreVars>>
    \/ WatchedNextTask /\ UNCHANGED <<computedVars, moreVars>>
    \/ PostJob /\ UNCHANGED <<queueVars, phase, computedVars, moreVars>>
    \/ ThenCallback /\ UNCHANGED <<queueVars, phase, computedVars, moreVars>>
    \/ Commit /\ UNCHANGED <<queueVars, phase, computedVars, moreVars>>
SpecWatch == Init /\ [][NextWatch]_vars

\* ------------------------------------------------------ getProxyObj, modes
MaxProxies == 2
\* the handles the script keeps in variables
MaxHeld == 3
\* const existionProxy = reactiveMap.get(obj); if (existionProxy) return it;
\* otherwise a new Proxy whose traps close over isShallow and isReadonly
GetProxyFresh(rm, t, isShallow, isReadonly, id) ==
    [id |-> id, shallow |-> isShallow, readonly |-> isReadonly]
GetProxy(rm, t, isShallow, isReadonly, id) ==
    IF rm[t].id # 0 THEN rm[t]
    ELSE [id |-> id, shallow |-> isShallow, readonly |-> isReadonly]

\* what the caller holds after getProxyObj(t, isShallow, isReadonly) returned proxy
Handle(proxy, t, isShallow, isReadonly, via) ==
    [t |-> t, id |-> proxy.id, shallow |-> proxy.shallow, readonly |-> proxy.readonly,
     asShallow |-> isShallow, asReadonly |-> isReadonly, via |-> via]

\* a call of getProxyObj, with reactiveMap.set(obj, proxy) for a new proxy
GetProxyObj(t, isShallow, isReadonly, via) ==
    LET proxy == GetProxy(reactiveMap, t, isShallow, isReadonly, nextId)
    IN  /\ proxy.id <= MaxProxies
        /\ \/ Handle(proxy, t, isShallow, isReadonly, via) \in held
           \/ Cardinality(held) < MaxHeld
        /\ reactiveMap' = [reactiveMap EXCEPT ![t] = proxy]
        /\ nextId' = IF proxy.id = nextId THEN nextId + 1 ELSE nextId
        /\ held' = held \cup {Handle(proxy, t, isShallow, isReadonly, via)}

\* the script calls getProxyObj(t, isShallow, isReadonly)
Wrap(t, isShallow, isReadonly) ==
    /\ Idle
    /\ GetProxyObj(t, isShallow, isReadonly, "call")
    /\ UNCHANGED <<coreVars, lastH>>

\* the script reads the child of the proxy h of p: the get trap returns
\* getProxyObj(res, isShallow, isReadonly) for an object, unless isShallow
DeepRead(h) ==
    /\ Idle
    /\ h.id # 0 /\ ~h.shallow
    /\ GetV(raw, "p", "child") = RefC
    /\ GetProxyObj("c", h.shallow, h.readonly, "read")
    /\ UNCHANGED <<coreVars, lastH>>

\* the script writes h[k] = v: the set trap of the proxy of h
HandleSet(h, k, v) ==
    /\ Idle
    /\ lastH' = [op |-> "set", t |-> h.t, k |-> k, asReadonly |-> h.asReadonly,
                 before |-> raw[h.t], res |-> TRUE]
    /\ ran' = {}
    /\ IF h.readonly THEN UNCHANGED <<raw, stack>> ELSE SetTrap(h.t, k, v, <<>>)
    /\ UNCHANGED <<bucket, deps, fnOf, sched, activeEffect, effectStack,
                   shouldTrack, error, lastOp, reactiveMap, nextId, held>>

\* the script evaluates delete h[k]: the deleteProperty trap of the proxy of h
HandleDelete(h, k) ==
    /\ Idle
    /\ lastH' = [op |-> "delete", t |-> h.t, k |-> k, asReadonly |-> h.asReadonly,
                 before |-> raw[h.t],
                 res |-> IF h.readonly THEN TRUE ELSE DeleteResult(h.t, k)]
    /\ ran' = {}
    /\ IF h.readonly THEN UNCHANGED <<raw, stack>> ELSE DeleteTrap(h.t, k, <<>>)
    /\ UNCHANGED <<bucket, deps, fnOf, sched, activeEffect, effectStack,
                   shouldTrack, error, lastOp, reactiveMap, nextId, held>>

\* the object whose handle the body f reads
BodyTarget(f) == Instr(f, 1, UNDEFINED).t
notHandleVars == <<batchVars, computedVars, watchVars, found, owed, handlerCalls>>

\* a script that wraps objects and writes through the handles, with no effect
NextIdentity ==
    \/ \E t \in Wrapped, sh \in BOOLEAN, ro \in BOOLEAN :
            Wrap(t, sh, ro) /\ UNCHANGED notHandleVars
    \/ DeepRead(reactiveMap["p"]) /\ UNCHANGED notHandleVars
    \/ \E h \in held, k \in {"n", "x"}, v \in Val :
            k \in KeysOf(h.t) /\ HandleSet(h, k, v) /\ UNCHANGED notHandleVars
    \/ \E h \in held, k \in {"n", "x"} :
            k \in KeysOf(h.t) /\ HandleDelete(h, k) /\ UNCHANGED notHandleVars
SpecIdentity == Init /\ [][NextIdentity]_vars

\* the same script with one effect that reads through a handle
NextHandles ==
    \/ NextIdentity
    \/ \E f \in HandleBodies :
            /\ reactiveMap[BodyTarget(f)].id # 0
            /\ \A e \in Effects : fnOf[e] = "none"
            /\ Register(f, "none") /\ UNCHANGED extVars
    \/ EffectGet /\ UNCHANGED extVars
    \/ EffectReturn /\ UNCHANGED extVars
    \/ TriggerRun /\ UNCHANGED extVars
SpecHandles == Init /\ [][NextHandles]_vars

\* ------------------------------------------------- effects that only read
NextReaders ==
    \/ \E f \in ReaderBodies : Register(f, "none") /\ UNCHANGED extVars
    \/ EffectGet /\ UNCHANGED extVars
    \/ EffectReturn /\ UNCHANGED extVars
    \/ TriggerRun /\ UNCHANGED extVars
    \/ \E k \in KeysOf("testObj"), v \in Val : TopSet("testObj", k, v) /\ UNCHANGED extVars
SpecReaders == Init /\ [][NextReaders]_vars

\* ------------------------------------------ onInvalidate, handler by handler
\* job with each call of cleanup() recorded
JobCallbackCounted ==
    /\ JobCallback
    /\ handlerCalls' = IF cleanup # 0
                        THEN Append(handlerCalls, [h |-> cleanup, at |-> Len(calls) + 1])
                        ELSE handlerCalls
    /\ UNCHANGED <<queueVars, phase, computedVars, handleVars, found, owed>>

NextInvalidate ==
    \/ \E cb \in {"commit", "once"}, i \in BOOLEAN :
            Watch(cb, i, "sync") /\ UNCHANGED <<batchVars, computedVars, moreVars>>
    \/ EffectGet /\ UNCHANGED extVars
    \/ EffectReturn /\ UNCHANGED extVars
    \/ SetupReturn /\ UNCHANGED <<queueVars, phase, computedVars, moreVars>>
    \/ JobCallbackCounted
    \/ JobReturn /\ UNCHANGED <<queueVars, phase, computedVars, moreVars>>
    \/ TriggerWatch /\ UNCHANGED <<queueVars, phase, computedVars, moreVars>>
    \/ \E k \in KeysOf("obj"), v \in Val :
            WatchedTopSet(k, v) /\ UNCHANGED <<batchVars, computedVars, moreVars>>
SpecInvalidate == Init /\ [][NextInvalidate]_vars

\* ------------------------------------------- the batching scheduler, fairly
FairBodies == {"readName", "copyAge"}
\* scheduler(fn) was called for the effect: a run of it is owed
ScheduleOwed ==
    /\ TriggerSchedule
    /\ owed' = owed \cup {Head(Top.todo)}
    /\ UNCHANGED <<computedVars, watchVars, handleVars, found, handlerCalls>>
\* the flush calls the job: the run that was owed starts
FlushJobOwed ==
    /\ FlushJob
    /\ owed' = owed \ {jobQueue[Top.pc]}
    /\ UNCHANGED <<computedVars, watchVars, handleVars, found, handlerCalls>>

\* what the engine does inside a call the script or the host made
EngineStep ==
    \/ EffectGet /\ UNCHANGED extVars
    \/ EffectSet /\ UNCHANGED extVars
    \/ EffectReturn /\ UNCHANGED extVars
    \/ ScheduleOwed
    \/ FlushJobOwed
    \/ FlushEnd /\ UNCHANGED <<computedVars, watchVars, moreVars>>
\* what the host does between the tasks of the script
HostStep ==
    \/ NextTask /\ UNCHANGED <<computedVars, watchVars, moreVars>>
    \/ FlushStart /\ UNCHANGED <<computedVars, watchVars, moreVars>>
    \/ FlushFinally /\ UNCHANGED <<computedVars, watchVars, moreVars>>
TaskEnds == EndTask /\ UNCHANGED <<computedVars, watchVars, moreVars>>

NextFair ==
    \/ \E f \in FairBodies : Register(f, "batch") /\ UNCHANGED extVars
    \/ \E k \in KeysOf("testObj"), v \in Val : TopSet("testObj", k, v) /\ UNCHANGED extVars
    \/ EngineStep
    \/ HostStep
    \/ TaskEnds
\* every call returns, every task of the script ends and the host runs the
\* microtasks that wait
SpecFair ==
    /\ Init /\ [][NextFair]_vars
    /\ WF_vars(EngineStep) /\ WF_vars(HostStep) /\ SF_vars(TaskEnds)

\* ------------------------------------- includes, indexOf, lastIndexOf

\* the elements a method of Array.prototype reads through the handle: the get trap
\* returns getProxyObj(res, isShallow, isReadonly) for an object, unless isShallow
View(xs, isShallow) ==
    [i \in 1..Len(xs) |-> IF xs[i] = RefC /\ ~isShallow THEN ProxyC ELSE xs[i]]

\* Array.prototype[method].apply(xs, [x])
OriginMethod(method, xs, x) ==
    LET at == {i \in 1..Len(xs) : xs[i] = x}
    IN  CASE method = "includes" -> JsBool(at # {})
          [] method = "indexOf" ->
                JsNum(IF at = {} THEN 0 - 1
                      ELSE (CHOOSE i \in at : \A j \in at : i <= j) - 1)
          [] OTHER ->
                JsNum(IF at = {} THEN 0 - 1
                      ELSE (CHOOSE i \in at : \A j \in at : i >= j) - 1)

\* arrayInstrumentations[method] called on the handle of the sequence xs
Instrumented(method, xs, isShallow, x) ==
    LET res == OriginMethod(method, View(xs, isShallow), x)
    IN  IF res = JsBool(FALSE) THEN OriginMethod(method, xs, x) ELSE res

\* the elements of the sequences the script wraps, and what it searches for
MaxElems == 2
Elems == Val \cup {RefC}
SeqsOf(n) == UNION {[1..m -> Elems] : m \in 0..n}
\* the script calls handle[method](x) on the handle of the sequence xs
Search(method, xs, isShallow, x) ==
    /\ Idle
    /\ found' = [method |-> method, xs |-> xs, shallow |-> isShallow, x |-> x,
                 res |-> Instrumented(method, xs, isShallow, x)]
    /\ UNCHANGED <<coreVars, batchVars, computedVars, watchVars, handleVars, owed,
                   handlerCalls>>

NextSearch ==
    \E method \in {"includes", "indexOf", "lastIndexOf"}, xs \in SeqsOf(MaxElems),
       isShallow \in BOOLEAN, x \in Elems \cup {ProxyC} :
            Search(method, xs, isShallow, x)
SpecSearch == Init /\ [][NextSearch]_vars

\* ---------------------------------- for...in on records and on sequences
NextShape ==
    \/ \E f \in ShapeBodies : Register(f, "none") /\ UNCHANGED extVars
    \/ EffectOwnKeys /\ UNCHANGED extVars
    \/ EffectReturn /\ UNCHANGED extVars
    \/ TriggerRun /\ UNCHANGED extVars
    \/ \E k \in RecKeys, v \in WrittenVals : TopSet("o", k, v) /\ UNCHANGED extVars
    \/ \E k \in RecKeys : TopDelete("o", k) /\ UNCHANGED extVars
    \/ \E k \in IndexKeys, v \in Val : TopSet("arr", k, v) /\ UNCHANGED extVars
    \/ \E k \in IndexKeys : TopDelete("arr", k) /\ UNCHANGED extVars
SpecShape == Init /\ [][NextShape]_vars

\* ------------------------------------------------------- watch(source), traverse
\* typeof value === 'object' && value !== null
IsObject(v) == v \in {ProxyG, RefS, RefG, RefC}
\* the object a reference leads to; ProxyG reads it through the get trap
TargetOf(v) ==
    CASE v = RefS -> "s" [] v = RefC -> "c" [] OTHER -> "g"
\* the own keys of an object a for...in visits, in their order
KeyOrder(t) ==
    CASE t = "g" -> <<"a", "sub">>
      [] t = "s" -> <<"b", "back">>
      [] t = "c" -> <<"x">>
      [] OTHER -> <<>>
ForIn(rw, t) == SelectSeq(KeyOrder(t), LAMBDA k : HasOwn(rw, t, k))

\* traverse(value, seen): st.seen is the Set seen, st.reads the calls of
\* track(target, key) the get trap of the handle made, in order
RECURSIVE Traverse(_, _, _)
RECURSIVE TraverseKeys(_, _, _, _)
Traverse(rw, v, st) ==
    IF ~IsObject(v) \/ v \in st.seen THEN st
    ELSE TraverseKeys(rw, v, ForIn(rw, TargetOf(v)), [st EXCEPT !.seen = @ \cup {v}])
TraverseKeys(rw, v, ks, st) ==
    IF ks = <<>> THEN st
    ELSE TraverseKeys(rw, v, Tail(ks),
            Traverse(rw, GetV(rw, TargetOf(v), Head(ks)),
                     IF v = ProxyG
                     THEN [st EXCEPT !.reads = Append(@, <<TargetOf(v), Head(ks)>>)]
                     ELSE st))
\* what traverse(value) returns
TraverseResult(v) == IF IsObject(v) THEN v ELSE UNDEFINED

RECURSIVE TrackAllBucket(_, _, _)
TrackAllBucket(bk, active, rds) ==
    IF rds = <<>> THEN bk
    ELSE TrackAllBucket(TrackBucket(bk, active, TRUE, Head(rds)[1], Head(rds)[2]),
                        active, Tail(rds))
RECURSIVE TrackAllDeps(_, _, _)
TrackAllDeps(ds, active, rds) ==
    IF rds = <<>> THEN ds
    ELSE TrackAllDeps(TrackDeps(ds, active, TRUE, Head(rds)[1], Head(rds)[2]),
                      active, Tail(rds))

\* the getter of the watch runs traverse(source): every read it makes through the
\* handle calls track, in the order of the traversal
EffectTraverse ==
    /\ InRun
    /\ TopInstr.op = "traverse"
    /\ LET st == Traverse(raw, TopInstr.v, [seen |-> {}, reads |-> <<>>]) IN
        /\ bucket' = TrackAllBucket(bucket, activeEffect, st.reads)
        /\ deps' = TrackAllDeps(deps, activeEffect, st.reads)
        /\ stack' = [stack EXCEPT ![Len(stack)] =
                [@ EXCEPT !.pc = @ + 1,
                          !.acc = TraverseResult(TopInstr.v),
                          !.reads = @ \cup {st.reads[i] : i \in 1..Len(st.reads)}]]
    /\ UNCHANGED <<raw, fnOf, sched, activeEffect, effectStack, shouldTrack, error,
                   lastOp, ran>>

\* watch(source, cb, {}) with a source that is not a function: the getter is
\* () => traverse(source), and oldValue = effectFn()
WatchSource(f) ==
    /\ Idle
    /\ ~options.watching
    /\ \E e \in Effects : fnOf[e] = "none"
    /\ fnOf' = [fnOf EXCEPT ![FirstFree] = f]
    /\ sched' = [sched EXCEPT ![FirstFree] = "watch"]
    /\ options' = [watching |-> TRUE, cb |-> "commit", immediate |-> FALSE,
                   flush |-> "sync"]
    /\ lastOp' = Op("watch", "g", "a", UNDEFINED)
    /\ CallEffect(FirstFree, <<Frame("setup", NoEffect, "watch")>>, "watch", {})
    /\ UNCHANGED <<raw, shouldTrack, newVal, oldVal, cleanup, expired, calls,
                   finalData, committed, burst, atSetup, writes>>

\* handle[k] = v of the script on the handle of g
SourceTopSet(k, v) ==
    /\ Started < MaxCalls
    /\ TopSet("g", k, v)
    /\ UNCHANGED watchVars

\* handle.sub.b = v of the script, for a v that b does not hold: the get trap of
\* the handle returns target.sub, the object s itself, and the write is made on s
NestedSet(v) ==
    /\ Idle
    /\ GetV(raw, "g", "sub") = RefS
    /\ GetV(raw, "s", "b") # v
    /\ lastOp' = Op("set", "s", "b", v)
    /\ ran' = {}
    /\ raw' = [raw EXCEPT !["s"]["b"] = v]
    /\ UNCHANGED <<bucket, deps, fnOf, sched, activeEffect, effectStack,
                   shouldTrack, stack, error, watchVars>>

NextTraverse ==
    \/ \E f \in TraverseBodies :
            WatchSource(f) /\ UNCHANGED <<batchVars, computedVars, moreVars>>
    \/ EffectTraverse /\ UNCHANGED extVars
    \/ EffectReturn /\ UNCHANGED extVars
    \/ SetupReturn /\ UNCHANGED <<queueVars, phase, computedVars, moreVars>>
    \/ JobCallback /\ UNCHANGED <<queueVars, phase, computedVars, moreVars>>
    \/ JobReturn /\ UNCHANGED <<queueVars, phase, computedVars, moreVars>>
    \/ TriggerWatch /\ UNCHANGED <<queueVars, phase, computedVars, moreVars>>
    \/ \E k \in KeysOf("g"), v \in Val :
            SourceTopSet(k, v) /\ UNCHANGED <<batchVars, computedVars, moreVars>>
    \/ \E v \in Val : NestedSet(v) /\ UNCHANGED extVars
SpecTraverse == Init /\ [][NextTraverse]_vars

\* ------------------------------------------------ a body that throws
\* fn() throws: no call between the body and the script catches, and effectFn has
\* no finally, so the runners are unwound with effectStack.pop() and the
\* assignment of activeEffect that follow fn() left out
EffectThrow ==
    /\ InRun
    /\ TopInstr.op = "throw"
    /\ stack' = <<>>
    /\ error' = "Error"
    /\ UNCHANGED <<raw, bucket, deps, fnOf, sched, activeEffect, effectStack,
                   shouldTrack, lastOp, ran>>

\* the exceptions the script catches before it stops
MaxThrows == 2
\* the script made the statement in a try block: the catch clause ends, the script
\* goes on
Catch ==
    /\ stack = <<>>
    /\ error = "Error"
    /\ Len(effectStack) <= MaxThrows
    /\ error' = "none"
    /\ UNCHANGED <<raw, bucket, deps, fnOf, sched, activeEffect, effectStack,
                   shouldTrack, stack, lastOp, ran>>

\* the entries of effectFn.deps up to which the script goes on reading
MaxReads == 2
\* the script reads handle[k] outside every effect: the get trap calls track
TopGet(t, k) ==
    /\ Idle
    /\ activeEffect # NoEffect => Len(deps[activeEffect]) < MaxReads
    /\ lastOp' = Op("get", t, k, UNDEFINED)
    /\ ran' = {}
    /\ bucket' = TrackBucket(bucket, activeEffect, shouldTrack, t, k)
    /\ deps' = TrackDeps(deps, activeEffect, shouldTrack, t, k)
    /\ UNCHANGED <<raw, fnOf, sched, activeEffect, effectStack, shouldTrack,
                   stack, error>>

NextThrow ==
    \/ \E f \in ThrowBodies : Register(f, "none") /\ UNCHANGED extVars
    \/ EffectGet /\ UNCHANGED extVars
    \/ EffectReturn /\ UNCHANGED extVars
    \/ EffectThrow /\ UNCHANGED extVars
    \/ Catch /\ UNCHANGED extVars
    \/ TriggerRun /\ UNCHANGED extVars
    \/ \E k \in {"ok", "foo"}, v \in Val : TopSet("o", k, v) /\ UNCHANGED extVars
    \/ \E k \in {"ok", "foo"} : TopGet("o", k) /\ UNCHANGED extVars
SpecThrow == Init /\ [][NextThrow]_vars

\* -------------------------------------------------------------- properties
RunReturns == InRun /\ TopInstr.op = "ret"
\* the (target, key) whose subscriber Set holds e
Subscribed(bk, e) ==
    UNION {{<<t, bk[t][i].key>> : i \in {j \in 1..Len(bk[t]) : InSeq(e, bk[t][j].effects)}} :
           t \in Targets}

\* C1: when a run of an effect completes, the effect is in the subscriber set of
\* (target, key) if and only if that run read the key of the target
C1_DependencyPrecision ==
    [][RunReturns => Subscribed(bucket', Top.e) = Top.reads]_vars

\* C2: a trigger never has the effect that is executing among the effects it runs
C2_SelfTriggerSuppressed == InTrigger => ~InSeq(activeEffect, Top.todo)

\* the index read by an effect whose body reads one index of arr and nothing else
ReadsIndex(e, i) ==
    (fnOf[e] = "readIdx0" /\ i = 0) \/ (fnOf[e] = "readIdx1" /\ i = 1)
LengthWritten ==
    Idle /\ lastOp.op = "set" /\ lastOp.t = "arr" /\ lastOp.k = "length"

\* C9: a write of length = i re-runs an effect whose only read is index i < L, and a
\* write of length = L + 1 does not
C9_LengthInvalidation ==
    LengthWritten =>
        \A e \in Effects, i \in 0..(MaxLen - 1) :
            ReadsIndex(e, i) /\ i < lastOp.oldLen =>
                /\ (lastOp.v = i => e \in ran)
                /\ (lastOp.v = lastOp.oldLen + 1 => e \notin ran)

\* C10: an effect that only enumerates the keys of a record is re-run by the ADD of
\* a new key and by the DELETE of an own key, and not by the SET of an own key
C10_IterationInvalidation ==
    Idle /\ lastOp.t = "o" =>
        \A e \in Effects :
            fnOf[e] = "forIn" =>
                /\ (lastOp.op = "set" /\ ~lastOp.had => e \in ran)
                /\ (lastOp.op = "delete" /\ lastOp.had => e \in ran)
                /\ (lastOp.op = "set" /\ lastOp.had => e \notin ran)
FlushCompleted ==
    stack = <<>> /\ microtasks # <<>> /\ Head(microtasks).kind = "finally"
BatchRunBy(by) == \E i \in 1..Len(stack) :
    stack[i].kind = "run" /\ sched[stack[i].e] = "batch" /\ stack[i].by = by

\* C3: an effect with the batching scheduler is never run by the trigger; when its
\* scheduler was called once or more often in a task of the script, a flush is
\* waiting, and the flush that then completes has run the effect exactly once
C3_BatchingIdempotence ==
    /\ ~BatchRunBy("trigger")
    /\ phase = "sync" /\ error = "none" =>
           \A e \in Effects : pending[e] >= 1 => InSeq(Microtask("flush", 0), microtasks)
    /\ FlushCompleted => \A e \in Effects : atStart[e] >= 1 => flushRuns[e] = 1
C3_Witness == FlushCompleted /\ \E e \in Effects : atStart[e] = 2 /\ flushRuns[e] = 1

\* C4: when a flush has completed jobQueue is empty, and a flush runs only
\* effects whose scheduler was called since the flush before it ended
C4_FlushEmptiesQueue ==
    /\ FlushCompleted => jobQueue = <<>>
    /\ InFlush => \A e \in Effects : flushRuns[e] >= 1 => e \in since
\* C5: a read of value that follows the making of the cell or a write to a key of
\* obj, with no read between, runs the getter exactly once and returns the sum of
\* the state it is made in; every other read does not run the getter
C5_ComputedCaching ==
    /\ obs.n >= 1 /\ obs.fresh => obs.runs = 1 /\ obs.val = obs.sum
    /\ obs.n >= 1 /\ ~obs.fresh => obs.runs = 0

\* code of the script is at work: the script itself, or a body that is not the getter
UserCode == Idle \/ (InRun /\ fnOf[Top.e] # "sum")
\* C6: wherever code of the script is at work, a cell whose dirty is false caches
\* the sum of the current state, and every read of value returned that sum
C6_ComputedCellInvariant ==
    /\ UserCode /\ HasCell /\ ~dirty => value = Sum(raw)
    /\ obs.n >= 1 => obs.val = obs.sum
\* C7: for a watch with sync flush and without immediate, cb has been invoked once
\* for every write of obj.foo since the setup, each time with the value obj.foo
\* then had as new, and as old the new of the invocation before (the value of
\* obj.foo at the setup for the first invocation)
C7_WatcherOldNew ==
    options.watching /\ ~options.immediate /\ options.flush = "sync" =>
        /\ stack = <<>> => Len(calls) = writes
        /\ \A i \in 1..Len(calls) :
                /\ calls[i].new = calls[i].cur
                /\ calls[i].old = IF i = 1 THEN atSetup ELSE calls[i - 1].new

\* C8: the handler of every invocation of cb but the last has been called; an
\* invocation that was followed by another before the microtasks were drained has
\* not committed; and when nothing is left to run, the result retained is that
\* of the last invocation
C8_StaleCallbackSuppressed ==
    /\ \A i \in 1..(Len(calls) - 1) : i \in expired
    /\ \A i \in burst : i < Len(calls) => i \notin committed
    /\ stack = <<>> /\ microtasks = <<>> /\ calls # <<>> => finalData = Len(calls)
C8_Witness ==
    /\ stack = <<>> /\ microtasks = <<>>
    /\ burst = {1, 2} /\ Len(calls) = 2
    /\ 1 \in expired /\ committed = {2} /\ finalData = 2
\* C11: after a write or a deletion through a handle that getProxyObj returned
\* for isReadonly = true, the object is as it was, no effect was run, no exception
\* was thrown and the operation reported success
C11_ReadonlyPolicy ==
    Idle /\ lastH.op \in {"set", "delete"} /\ lastH.asReadonly =>
        /\ raw[lastH.t] = lastH.before
        /\ ran = {}
        /\ lastH.res

\* C12: two calls of getProxyObj for the same object with the same mode, made by
\* the script or by the get trap for a nested object, returned the same proxy
C12_IdentityStability ==
    \A h1 \in held, h2 \in held :
        h1.t = h2.t /\ h1.asShallow = h2.asShallow /\ h1.asReadonly = h2.asReadonly
            => h1.id = h2.id
C12_Witness ==
    \E h1 \in held, h2 \in held :
        /\ h1.t = "c" /\ h2.t = "c" /\ h1.via = "call" /\ h2.via = "read"
        /\ h1.asShallow = h2.asShallow /\ h1.asReadonly = h2.asReadonly
        /\ h1.id = h2.id
\* the effects whose runners are executing, outermost first
Running(stk) ==
    LET runs == SelectSeq(stk, LAMBDA fr : fr.kind = "run")
    IN  [i \in 1..Len(runs) |-> runs[i].e]

C14_ExceptionSafety ==
    stack = <<>> => effectStack = <<>> /\ activeEffect = NoEffect

\* C15: once watch has returned for a source that is neither a function nor an
\* object, an error has been reported to the script.
C15_MisuseSignalled ==
    stack = <<>> /\ (\E e \in Effects : fnOf[e] \in PrimitiveSources) => error # "none"

\* the effect of the watch whose source is the handle of g
Traversing(e) == fnOf[e] = "traverseHandle"
\* C16: after the script has changed a property reachable from the watched handle,
\* at the top of g or inside g.sub, the job of the watch has run.
C16_SubtreeWatching ==
    Idle /\ lastOp.op = "set" /\ lastOp.t \in {"g", "s"} =>
        \A e \in Effects : Traversing(e) => e \in ran

\* C17: after the script has added a key to a record or a sequence, or deleted
\* an own key of it, every effect that enumerated the keys of that object has run.
C17_ShapeChangeFanOut ==
    Idle /\ lastOp.op \in {"set", "delete"} /\ lastOp.t \in {"o", "arr"} =>
        \A e \in Effects :
            fnOf[e] \in ShapeBodies /\ BodyTarget(fnOf[e]) = lastOp.t =>
                /\ (lastOp.op = "set" /\ ~lastOp.had => e \in ran)
                /\ (lastOp.op = "delete" /\ lastOp.had => e \in ran)

\* C18: a search for the object c itself on the handle of a sequence that holds c
\* reports it found: includes returns true, indexOf the first index of c and
\* lastIndexOf the last.
C18_SearchFallback ==
    found.method # "none" /\ found.x = RefC /\ (\E i \in 1..Len(found.xs) : found.xs[i] = RefC) =>
        found.res = OriginMethod(found.method, found.xs, RefC)

C20_TrackingConfined ==
    Idle /\ lastOp.op = "push" =>
        \A e \in Effects : fnOf[e] = "readLen" => e \in ran

\* C21: an effect whose batching scheduler was called is run afterwards, unless
\* an exception ended the script before.
C21_NoLostWakeup ==
    \A e \in Effects : (e \in owed) ~> (e \notin owed \/ error # "none")

\* C22: no handler is called twice, and a handler is called only when the
\* invocation of cb after the one that registered it is about to begin.
C22_HandlerAtMostOnce ==
    \A i \in 1..Len(handlerCalls) :
        /\ handlerCalls[i].at = handlerCalls[i].h + 1
        /\ \A j \in 1..Len(handlerCalls) :
                i # j => handlerCalls[i].h # handlerCalls[j].h

\* the key the body of e reads
ReadsKey(e, k) == fnOf[e] # "none" /\ Instr(fnOf[e], 1, UNDEFINED).k = k
\* C23: with bodies that only read, the trigger of a write calls no effect it has
\* called before, no call fails, and when the write returns every effect that
\* reads the key written has been run, and no other.
C23_TriggerRunsEachOnce ==
    [][/\ InTrigger => Head(Top.todo) \notin ran /\ Head(Top.todo) \in ran'
       /\ error' = "none"
       /\ Idle' /\ lastOp'.op = "set" =>
                \A e \in Effects : e \in ran' <=> ReadsKey(e, lastOp'.k)]_vars

\* a write whose trigger has run both effects has returned
C23_Witness ==
    Idle /\ lastOp.op = "set" /\ ran = Effects

\* C24: between the calls of cleanup and track, an effect is a member of the
\* subscriber Set of (target, key) exactly when that Set occurs in its deps.
C24_IndexConsistency ==
    \A e \in Effects, t \in Targets :
        \A k \in KeysOf(t) \cup {ITERATE_KEY} :
            InSeq(e, MapGet(bucket[t], k)) <=> InSeq(<<t, k>>, deps[e])

\* a write has re-run an effect, whose cleanup emptied its deps and whose reads
\* filled them again
C24_Witness ==
    /\ Idle /\ lastOp.op = "set"
    /\ \E e \in ran : deps[e] # <<>>

====
